---- MODULE Spec2Model ----
(***************************************************************************)
(* snap-assist: the per-mode generation scheduler of AppWindow             *)
(* (src/snap_assist/main_cli.py) and the streaming worker ApiWorker.run.   *)
(*                                                                         *)
(* Spec        the scheduler: run_all_generations, refresh_mode and the    *)
(*             chunk / error / finished events of the workers it starts.   *)
(*             Every handler runs to completion before the next one (the   *)
(*             serialized orchestrator of the design); a worker is seen    *)
(*             through the events it emits.                                *)
(* WorkerSpec  one execution of ApiWorker.run, statement by statement,     *)
(*             against every response the endpoint can give.               *)
(***************************************************************************)
EXTENDS Integers, Sequences, FiniteSets, Bags, TLC

\* ------------------------------------------------------------------ bounds

\* The scheduler is explored on a mode table cut to its first NumPanels entries
\* (SpecFull keeps the whole table).
NumPanels == 5

\* SpecStream: the size of its mode table and the chunk and error events delivered in
\* one of its behaviours.
StreamPanels == 4
StreamEvents == 2

\* Clicks on "Refresh All" or on a panel's refresh button in one behaviour.
MaxClicks == 1

\* Chunk and error events delivered to the scheduler in one behaviour.
MaxEvents == 1

\* ----------------------------------------------------------- the mode table

\* get_chat_modes(): the keys, in the dict's iteration order.
get_chat_modes ==
    << "Proofread", "Summarise", "Explain", "Rewrite", "Professional",
       "Friendly", "Concise", "Fallacy Finder", "Answer It" >>

\* self.max_concurrent_requests
max_concurrent_requests == 3

\* dict.get(mode_name) on a missing key: None, equal to no generation (they start at 1).
NoGeneration == 0

\* ---------------------------------------------------------------- texts

\* Clipboard texts, as sequences of characters: empty, blank, and with content.
ClipboardTexts == { <<>>, <<" ">>, <<"t">> }

Whitespace == { " ", "\t", "\n" }

\* str.strip(), when it removes nothing.
strip_nothing(text) == text

\* str.strip(): leading and trailing whitespace removed.
RECURSIVE LStrip(_)
LStrip(text) ==
    IF text # <<>> /\ Head(text) \in Whitespace THEN LStrip(Tail(text)) ELSE text

RECURSIVE RStrip(_)
RStrip(text) ==
    IF text # <<>> /\ text[Len(text)] \in Whitespace
    THEN RStrip(SubSeq(text, 1, Len(text) - 1))
    ELSE text

strip(text) == RStrip(LStrip(text))

\* The texts a panel shows are sequences of pieces: a placeholder, a notice, an error
\* message, or the chunks appended so far.
Queued == << "Queued..." >>
Loading == << "Loading..." >>
EmptyNotice == << "Main text from clipboard is empty." >>
LaunchNotice == << "Clipboard is empty. Copy some text and restart the application." >>
ErrorMessage == "API request failed"

\* The chunks of a response stream, in stream order.
Stream == << "Hel", "lo", "!" >>

\* ---------------------------------------------------------------- state

VARIABLES
    mode_panels,          \* the keys of self.mode_panels, in the dict's order
    launched,             \* process_clipboard_on_launch has run (the end of __init__)
    main_clipboard_text,  \* self.main_clipboard_text
    current_generation,   \* self.current_generation
    mode_generations,     \* self.mode_generations, NoGeneration for a missing key
    mode_results,         \* self.mode_results, <<>> for a missing key
    mode_status,          \* self.mode_status, "none" for a missing key
    mode_errors,          \* self.mode_errors, "" for a missing key
    pending_modes,        \* self.pending_modes
    running_modes,        \* self.running_modes
    api_threads,          \* self.api_threads: (mode, generation of its thread), in key order
    panel_text,           \* the text of each ResultPanel
    result_text,          \* the text of combine_panel.result_text
    workers,              \* the started workers that have not delivered finished (a bag)
    last,                 \* history: the operation or event handled last, and whether
                          \* the event came from a superseded generation
    clicks_left,          \* clicks the user may still make
    events_left,          \* chunk and error events that may still be delivered
    \* One execution of ApiWorker.run (WorkerSpec):
    pc,                   \* where run is
    attempt,              \* attempt
    response,             \* the response of the current request
    sleep_secs,           \* sleep_secs, in milliseconds
    slept,                \* slept, in milliseconds
    isInterruptionRequested,  \* QThread.currentThread().isInterruptionRequested()
    emitted,              \* the signals emitted so far, in order
    requests              \* HTTP requests issued so far

vars ==
    << mode_panels, launched, main_clipboard_text, current_generation, mode_generations,
       mode_results, mode_status, mode_errors, pending_modes, running_modes,
       api_threads, panel_text, result_text, workers, last, clicks_left, events_left,
       pc, attempt, response, sleep_secs, slept, isInterruptionRequested, emitted,
       requests >>

\* The state of the scheduler, and the state of the one worker of WorkerSpec.
window_vars ==
    << mode_panels, launched, main_clipboard_text, current_generation, mode_generations,
       mode_results, mode_status, mode_errors, pending_modes, running_modes,
       api_threads, panel_text, result_text, workers, last, clicks_left, events_left >>

run_vars ==
    << pc, attempt, response, sleep_secs, slept, isInterruptionRequested, emitted,
       requests >>

\* What the events of the environment consume.
budget == << clicks_left, events_left >>

\* The elements of a list.
Range(list) == { list[i] : i \in 1..Len(list) }

\* The modes: one panel per chat mode, created in __init__.
Modes == Range(mode_panels)

\* The AppWindow fields and the live workers as one value, so that a handler is a
\* function from the state before it to the state after it.
Window ==
    [ mode_panels |-> mode_panels,
      main_clipboard_text |-> main_clipboard_text,
      current_generation |-> current_generation,
      mode_generations |-> mode_generations,
      mode_results |-> mode_results,
      mode_status |-> mode_status,
      mode_errors |-> mode_errors,
      pending_modes |-> pending_modes,
      running_modes |-> running_modes,
      api_threads |-> api_threads,
      panel_text |-> panel_text,
      result_text |-> result_text,
      workers |-> workers ]

Becomes(s) ==
    /\ mode_panels' = s.mode_panels
    /\ main_clipboard_text' = s.main_clipboard_text
    /\ current_generation' = s.current_generation
    /\ mode_generations' = s.mode_generations
    /\ mode_results' = s.mode_results
    /\ mode_status' = s.mode_status
    /\ mode_errors' = s.mode_errors
    /\ pending_modes' = s.pending_modes
    /\ running_modes' = s.running_modes
    /\ api_threads' = s.api_threads
    /\ panel_text' = s.panel_text
    /\ result_text' = s.result_text
    /\ workers' = s.workers

\* AppWindow.__init__, up to the call of process_clipboard_on_launch, on the mode
\* table `table`.
Constructed(table) ==
    /\ mode_panels = table
    /\ launched = FALSE
    /\ main_clipboard_text = <<>>
    /\ current_generation = 0
    /\ mode_generations = [m \in Range(table) |-> NoGeneration]
    /\ mode_results = [m \in Range(table) |-> <<>>]
    /\ mode_status = [m \in Range(table) |-> "none"]
    /\ mode_errors = [m \in Range(table) |-> ""]
    /\ pending_modes = <<>>
    /\ running_modes = {}
    /\ api_threads = <<>>
    /\ panel_text = [m \in Range(table) |-> <<>>]
    /\ result_text = <<>>
    /\ workers = EmptyBag
    /\ last = [op |-> "init", stale |-> FALSE]

\* No response: what `response` holds outside a request.
NoResponse == [status |-> 0, retry_after |-> <<>>, lines |-> 0, chunks |-> 0]

\* ApiWorker.__init__: the worker exists, run has not been called.
NotStarted ==
    /\ pc = "not_started"
    /\ attempt = 0
    /\ response = NoResponse
    /\ sleep_secs = 0
    /\ slept = 0
    /\ isInterruptionRequested = FALSE
    /\ emitted = <<>>
    /\ requests = 0

Init ==
    /\ Constructed(SubSeq(get_chat_modes, 1, NumPanels))
    /\ clicks_left = MaxClicks
    /\ events_left = MaxEvents
    /\ NotStarted

\* ------------------------------------------------------------ helpers

\* list.remove(x) guarded by `x in list`: the first occurrence goes.
RECURSIVE Remove(_, _)
Remove(list, x) ==
    IF list = <<>> THEN <<>>
    ELSE IF Head(list) = x THEN Tail(list)
    ELSE << Head(list) >> \o Remove(Tail(list), x)

InList(list, x) == \E i \in 1..Len(list) : list[i] = x

\* dict[key] = value on an insertion-ordered dict: an existing key keeps its place.
DictSet(dict, key, value) ==
    IF \E i \in 1..Len(dict) : dict[i].mode = key
    THEN [ i \in 1..Len(dict) |->
             IF dict[i].mode = key THEN [mode |-> key, gen |-> value] ELSE dict[i] ]
    ELSE Append(dict, [mode |-> key, gen |-> value])

\* The workers of generation gen of mode m that have not finished: the thread of that
\* worker is running.
Running(ws, m, gen) == { w \in BagToSet(ws) : w.mode = m /\ w.gen = gen }

\* thread.requestInterruption() on the threads of the workers in `hit`.
requestInterruption(ws, hit) ==
    BagOfAll(LAMBDA w : IF w \in hit THEN [w EXCEPT !.interrupted = TRUE] ELSE w, ws)

\* ------------------------------------------------------- ResultPanel

\* ResultPanel.set_loading(True): a blank or placeholder text becomes "Loading...".
set_loading(text) ==
    IF strip(text) = <<>> \/ strip(text) \in {Queued, Loading} THEN Loading ELSE text

\* ResultPanel.append_text: the placeholder "Loading..." is cleared, the text inserted.
append_text(text, chunk) ==
    (IF strip(text) = Loading THEN <<>> ELSE text) \o << chunk >>

\* ResultPanel.set_error: the text is replaced by the message.
set_error(text, error_message) == << error_message >>

\* ------------------------------------------------------- AppWindow

\* start_worker_for_mode, when it leaves the status of the mode as it was.
start_worker_for_mode_unmarked(s, generation, mode_name) ==
    [ s EXCEPT
        !.running_modes = @ \cup {mode_name},
        !.panel_text[mode_name] = set_loading(@),
        !.workers = @ (+) SetToBag({ [ mode |-> mode_name, gen |-> generation,
                                       interrupted |-> FALSE, errored |-> FALSE,
                                       sent |-> 0 ] }),
        !.api_threads = DictSet(@, mode_name, generation) ]

\* start_worker_for_mode: marks the mode running, takes a slot and starts a worker whose
\* callbacks are bound to `generation`.
start_worker_for_mode(s, generation, mode_name) ==
    [ s EXCEPT
        !.mode_status[mode_name] = "running",
        !.running_modes = @ \cup {mode_name},
        !.panel_text[mode_name] = set_loading(@),
        !.workers = @ (+) SetToBag({ [ mode |-> mode_name, gen |-> generation,
                                       interrupted |-> FALSE, errored |-> FALSE,
                                       sent |-> 0 ] }),
        !.api_threads = DictSet(@, mode_name, generation) ]

\* pending_modes.pop(0), when the front stays in the list.
pop_nothing(list) == list

\* pending_modes.pop(0): what is left of the list.
pop(list) == Tail(list)

\* start_next_in_queue, when it takes the back of pending_modes instead of the front.
start_next_in_queue_last(s) ==
    IF s.pending_modes = <<>> THEN s
    ELSE LET mode_name == s.pending_modes[Len(s.pending_modes)]
             generation == IF s.mode_generations[mode_name] # NoGeneration
                           THEN s.mode_generations[mode_name]
                           ELSE s.current_generation
         IN  start_worker_for_mode(
                 [s EXCEPT !.pending_modes = SubSeq(@, 1, Len(@) - 1)],
                 generation, mode_name)

\* start_next_in_queue: pops the front of pending_modes and starts it under the mode's
\* own generation.
start_next_in_queue(s) ==
    IF s.pending_modes = <<>> THEN s
    ELSE LET mode_name == Head(s.pending_modes)
             generation == IF s.mode_generations[mode_name] # NoGeneration
                           THEN s.mode_generations[mode_name]
                           ELSE s.current_generation
         IN  start_worker_for_mode([s EXCEPT !.pending_modes = pop(@)],
                                   generation, mode_name)

\* update_panel_text, when it stores the chunk in the place of the text so far.
update_panel_text_replacing(s, mode_name, chunk) ==
    [ s EXCEPT !.panel_text[mode_name] = append_text(@, chunk),
               !.mode_results[mode_name] = << chunk >> ]

\* update_panel_text
update_panel_text(s, mode_name, chunk) ==
    [ s EXCEPT !.panel_text[mode_name] = append_text(@, chunk),
               !.mode_results[mode_name] = Append(@, chunk) ]

\* update_panel_text_if_current without its generation guard.
update_panel_text_unguarded(s, generation, mode_name, chunk) ==
    update_panel_text(s, mode_name, chunk)

\* update_panel_text_if_current: the generation guard of chunk events.
update_panel_text_if_current(s, generation, mode_name, chunk) ==
    IF generation # s.mode_generations[mode_name] THEN s
    ELSE update_panel_text(s, mode_name, chunk)

\* show_panel_error, when it marks every mode as failed.
show_panel_error_everywhere(s, mode_name, error_message) ==
    [ s EXCEPT !.panel_text[mode_name] = set_error(@, error_message),
               !.mode_errors = [m \in DOMAIN @ |-> error_message],
               !.mode_status = [m \in DOMAIN @ |-> "error"] ]

\* show_panel_error
show_panel_error(s, mode_name, error_message) ==
    [ s EXCEPT !.panel_text[mode_name] = set_error(@, error_message),
               !.mode_errors[mode_name] = error_message,
               !.mode_status[mode_name] = "error" ]

\* show_panel_error_if_current: the generation guard of error events.
show_panel_error_if_current(s, generation, mode_name, error_message) ==
    IF generation # s.mode_generations[mode_name] THEN s
    ELSE show_panel_error(s, mode_name, error_message)

\* on_worker_finished, when it leaves the status of the mode as it was.
on_worker_finished_unmarked(s, mode_name) ==
    LET s2 == [s EXCEPT !.running_modes = @ \ {mode_name}]
    IN  IF s2.pending_modes # <<>> THEN start_next_in_queue(s2) ELSE s2

\* on_worker_finished, when it frees the slot without starting the next queued mode.
on_worker_finished_stalled(s, mode_name) ==
    LET s1 == IF s.mode_status[mode_name] # "error"
              THEN [s EXCEPT !.mode_status[mode_name] = "done"] ELSE s
    IN  [s1 EXCEPT !.running_modes = @ \ {mode_name}]

\* on_worker_finished, when it marks the mode done whatever its status.
on_worker_finished_overwriting(s, mode_name) ==
    LET s1 == [s EXCEPT !.mode_status[mode_name] = "done"]
        s2 == [s1 EXCEPT !.running_modes = @ \ {mode_name}]
    IN  IF s2.pending_modes # <<>> THEN start_next_in_queue(s2) ELSE s2

\* on_worker_finished
on_worker_finished(s, mode_name) ==
    LET s1 == IF s.mode_status[mode_name] # "error"
              THEN [s EXCEPT !.mode_status[mode_name] = "done"] ELSE s
        s2 == [s1 EXCEPT !.running_modes = @ \ {mode_name}]
    IN  IF s2.pending_modes # <<>> THEN start_next_in_queue(s2) ELSE s2

\* on_worker_finished_if_current without its generation guard.
on_worker_finished_unguarded(s, generation, mode_name) ==
    on_worker_finished(s, mode_name)

\* on_worker_finished_if_current: a stale finished event still frees the slot and
\* advances the queue.
on_worker_finished_if_current(s, generation, mode_name) ==
    IF generation = s.mode_generations[mode_name]
    THEN on_worker_finished(s, mode_name)
    ELSE LET s1 == [s EXCEPT !.running_modes = @ \ {mode_name}]
         IN  IF s1.pending_modes # <<>> THEN start_next_in_queue(s1) ELSE s1

\* The generation bump, when it assigns the generation in use again.
next_generation_same(s) == s.current_generation

\* `self.current_generation += 1; gen = self.current_generation`
next_generation(s) == s.current_generation + 1

\* The entries of api_threads at which stop_all_threads may end: past the last one, or
\* at an entry whose thread has finished and may have been deleted (isRunning() then
\* raises RuntimeError, which ends the loop).
StopPoints(s) ==
    { k \in 1..(Len(s.api_threads) + 1) :
        \/ k = Len(s.api_threads) + 1
        \/ Running(s.workers, s.api_threads[k].mode, s.api_threads[k].gen) = {} }

\* stop_all_threads(wait=False): requestInterruption on every running thread of
\* api_threads, in key order, until entry `raised` raises.
stop_all_threads(s, raised) ==
    LET hit == UNION { Running(s.workers, s.api_threads[i].mode, s.api_threads[i].gen) :
                       i \in 1..(raised - 1) }
    IN  [s EXCEPT !.workers = requestInterruption(@, hit)]

RECURSIVE StartInitial(_, _)
StartInitial(s, initial) ==
    IF initial = 0 THEN s ELSE StartInitial(start_next_in_queue(s), initial - 1)

Min(a, b) == IF a < b THEN a ELSE b

\* list(self.mode_panels), in the reverse of the table's order.
list_modes_reversed(table) == [ i \in 1..Len(table) |-> table[Len(table) + 1 - i] ]

\* list(self.mode_panels): the mode names in the iteration order of the table.
list_modes(table) == table

\* run_all_generations
run_all_generations(s, raised) ==
    IF strip(s.main_clipboard_text) = <<>>
    THEN [s EXCEPT !.panel_text[Head(s.mode_panels)] = EmptyNotice]
    ELSE LET gen == next_generation(s)
             s1 == stop_all_threads([s EXCEPT !.current_generation = gen], raised)
             s2 == [ s1 EXCEPT
                       !.api_threads = <<>>,
                       !.mode_results = [m \in Range(s.mode_panels) |-> <<>>],
                       !.mode_errors = [m \in Range(s.mode_panels) |-> ""],
                       !.mode_status = [m \in Range(s.mode_panels) |-> "queued"],
                       !.panel_text = [m \in Range(s.mode_panels) |-> Queued],
                       !.mode_generations = [m \in Range(s.mode_panels) |-> gen],
                       !.pending_modes = list_modes(s.mode_panels),
                       !.running_modes = {} ]
         IN  StartInitial(s2, Min(max_concurrent_requests, Len(s2.pending_modes)))

\* pending_modes.insert(0, mode_name), with the mode appended instead.
insert_last(list, mode_name) == Append(list, mode_name)

\* pending_modes.insert(0, mode_name)
insert_front(list, mode_name) == << mode_name >> \o list

\* The threads refresh_mode stops, when it stops every thread of api_threads.
thread_of_any(s, mode_name) == Range(s.api_threads)

\* self.api_threads.get(mode_name): the thread refresh_mode stops.
thread_of(s, mode_name) == { e \in Range(s.api_threads) : e.mode = mode_name }

\* The queue of refresh_mode, when the stale occurrence is left in it.
remove_queued_kept(list, mode_name) == list

\* `if mode_name in self.pending_modes: self.pending_modes.remove(mode_name)`
remove_queued(list, mode_name) == Remove(list, mode_name)

\* The free-slot test of refresh_mode, when it never finds a slot.
has_free_slot_never(running) == FALSE

\* len(self.running_modes) < self.max_concurrent_requests
has_free_slot(running) == Cardinality(running) < max_concurrent_requests

\* refresh_mode
refresh_mode(s, mode_name) ==
    IF strip(s.main_clipboard_text) = <<>>
    THEN [s EXCEPT !.panel_text[mode_name] = EmptyNotice]
    ELSE LET gen == next_generation(s)
             hit == UNION { Running(s.workers, e.mode, e.gen) :
                            e \in thread_of(s, mode_name) }
             s1 == [ s EXCEPT
                       !.current_generation = gen,
                       !.mode_generations[mode_name] = gen,
                       !.workers = requestInterruption(@, hit),
                       !.pending_modes = remove_queued(@, mode_name),
                       !.mode_results[mode_name] = <<>>,
                       !.mode_errors[mode_name] = "",
                       !.mode_status[mode_name] = "queued",
                       !.panel_text[mode_name] = Queued ]
         IN  IF mode_name \in s1.running_modes
             THEN [s1 EXCEPT !.pending_modes = insert_front(@, mode_name)]
             ELSE IF has_free_slot(s1.running_modes)
                  THEN start_worker_for_mode(s1, gen, mode_name)
                  ELSE [s1 EXCEPT !.pending_modes = insert_front(@, mode_name)]

\* process_clipboard_on_launch: the clipboard is read once; an empty one is reported,
\* any other starts every mode.
process_clipboard_on_launch(s, text) ==
    LET s1 == [s EXCEPT !.main_clipboard_text = text]
    IN  IF text = <<>>
        THEN [s1 EXCEPT !.panel_text[Head(s1.mode_panels)] = LaunchNotice]
        ELSE run_all_generations(s1, 1)

\* ------------------------------------------------------- the worker's events

\* ApiWorker.run emits chunk_received_with_mode for the next line of the stream.
emit_chunk(ws, w) == (ws (-) SetToBag({w})) (+) SetToBag({ [w EXCEPT !.sent = @ + 1] })

\* ApiWorker.run emits error_occurred and leaves the retry loop.
emit_error(ws, w) == (ws (-) SetToBag({w})) (+) SetToBag({ [w EXCEPT !.errored = TRUE] })

\* ApiWorker.run emits finished: the worker is over.
emit_finished(ws, w) == ws (-) SetToBag({w})

\* ------------------------------------------------------- actions

\* The end of AppWindow.__init__.
Launch ==
    /\ ~launched
    /\ launched' = TRUE
    /\ \E text \in ClipboardTexts : Becomes(process_clipboard_on_launch(Window, text))
    /\ last' = [op |-> "launch", stale |-> FALSE]
    /\ UNCHANGED << budget, run_vars >>

\* One of the user's clicks.
Click ==
    /\ launched
    /\ clicks_left > 0
    /\ clicks_left' = clicks_left - 1
    /\ UNCHANGED << launched, events_left, run_vars >>

\* "Refresh All" is clicked.
RunAll ==
    /\ Click
    /\ \E raised \in StopPoints(Window) : Becomes(run_all_generations(Window, raised))
    /\ last' = [op |-> "run_all", stale |-> FALSE]

\* The refresh button of panel mode_name is clicked.
Refresh(mode_name) ==
    /\ Click
    /\ Becomes(refresh_mode(Window, mode_name))
    /\ last' = [op |-> "refresh", stale |-> FALSE]

\* A chunk event of worker w is delivered.
Chunk(w) ==
    /\ w \in BagToSet(workers)
    /\ w.mode \in Modes
    /\ last' = [op |-> "chunk", stale |-> w.gen # mode_generations[w.mode]]
    /\ ~w.errored
    /\ w.sent < Len(Stream)
    /\ events_left > 0
    /\ events_left' = events_left - 1
    /\ Becomes(update_panel_text_if_current(
                 [Window EXCEPT !.workers = emit_chunk(@, w)],
                 w.gen, w.mode, Stream[w.sent + 1]))
    /\ UNCHANGED << launched, clicks_left, run_vars >>

\* An error event of worker w is delivered.
Error(w) ==
    /\ w \in BagToSet(workers)
    /\ w.mode \in Modes
    /\ last' = [op |-> "error", stale |-> w.gen # mode_generations[w.mode]]
    /\ ~w.errored
    /\ events_left > 0
    /\ events_left' = events_left - 1
    /\ Becomes(show_panel_error_if_current(
                 [Window EXCEPT !.workers = emit_error(@, w)],
                 w.gen, w.mode, ErrorMessage))
    /\ UNCHANGED << launched, clicks_left, run_vars >>

\* The finished event of worker w is delivered.
Finished(w) ==
    /\ w \in BagToSet(workers)
    /\ w.mode \in Modes
    /\ last' = [op |-> "finished", stale |-> w.gen # mode_generations[w.mode]]
    /\ Becomes(on_worker_finished_if_current(
                 [Window EXCEPT !.workers = emit_finished(@, w)],
                 w.gen, w.mode))
    /\ UNCHANGED << launched, budget, run_vars >>

Next ==
    \/ Launch
    \/ RunAll
    \/ \E mode_name \in Modes : Refresh(mode_name)
    \/ \E w \in BagToSet(workers) : Chunk(w)
    \/ \E w \in BagToSet(workers) : Error(w)
    \/ \E w \in BagToSet(workers) : Finished(w)

Spec == Init /\ [][Next]_vars

\* The scheduler on a table of StreamPanels modes, with StreamEvents chunk and error
\* events, so that one worker delivers several chunks.
InitStream ==
    /\ Constructed(SubSeq(get_chat_modes, 1, StreamPanels))
    /\ clicks_left = MaxClicks
    /\ events_left = StreamEvents
    /\ NotStarted

SpecStream == InitStream /\ [][Next]_vars

\* The scheduler on the whole mode table, under launch, "Refresh All" and the workers'
\* finished events.
InitFull ==
    /\ Constructed(get_chat_modes)
    /\ clicks_left = MaxClicks
    /\ events_left = 0
    /\ NotStarted

NextFull ==
    \/ Launch
    \/ RunAll
    \/ \E w \in BagToSet(workers) : Finished(w)

SpecFull == InitFull /\ [][NextFull]_vars

\* Every started worker eventually emits finished, and the event is delivered; the
\* user clicks at most MaxClicks times.
SpecLive == Spec /\ WF_vars(\E w \in BagToSet(workers) : Finished(w))

\* ------------------------------------------------------- the refine task

\* Panels and clicks of the specification with the refine task.
RefinePanels == 4
RefineClicks == 2

\* The texts combine_panel emits with refine_requested.
CombinedTexts == { << " " >>, << "t" >> }

\* run_refine_generation, when the refine worker takes a slot of running_modes.
run_refine_generation_slotted(s, combined_text) ==
    IF strip(combined_text) = <<>> THEN s
    ELSE LET gen == next_generation(s)
         IN  [ s EXCEPT
                 !.result_text = <<>>,
                 !.current_generation = gen,
                 !.running_modes = @ \cup {"Refine"},
                 !.workers = @ (+) SetToBag({ [ mode |-> "Refine", gen |-> gen,
                                                interrupted |-> FALSE,
                                                errored |-> FALSE, sent |-> 0 ] }),
                 !.api_threads = DictSet(@, "Refine", gen) ]

\* run_refine_generation: a worker named "Refine" outside running_modes and
\* pending_modes; its thread replaces the entry "Refine" of api_threads.
run_refine_generation(s, combined_text) ==
    IF strip(combined_text) = <<>> THEN s
    ELSE LET gen == next_generation(s)
         IN  [ s EXCEPT
                 !.result_text = <<>>,
                 !.current_generation = gen,
                 !.workers = @ (+) SetToBag({ [ mode |-> "Refine", gen |-> gen,
                                                interrupted |-> FALSE,
                                                errored |-> FALSE, sent |-> 0 ] }),
                 !.api_threads = DictSet(@, "Refine", gen) ]

\* The refine button is clicked.
Refine(combined_text) ==
    /\ Click
    /\ Becomes(run_refine_generation(Window, combined_text))
    /\ last' = [op |-> "refine", stale |-> FALSE]

\* chunk_received of a refine worker: result_text.insertPlainText(c)
RefineChunk(w) ==
    /\ w \in BagToSet(workers)
    /\ w.mode = "Refine"
    /\ ~w.errored
    /\ w.sent < Len(Stream)
    /\ events_left > 0
    /\ events_left' = events_left - 1
    /\ Becomes([Window EXCEPT !.workers = emit_chunk(@, w),
                              !.result_text = Append(@, Stream[w.sent + 1])])
    /\ last' = [op |-> "refine_chunk", stale |-> FALSE]
    /\ UNCHANGED << launched, clicks_left, run_vars >>

\* error_occurred of a refine worker: result_text.setPlainText(f"Error: {msg}")
RefineError(w) ==
    /\ w \in BagToSet(workers)
    /\ w.mode = "Refine"
    /\ ~w.errored
    /\ events_left > 0
    /\ events_left' = events_left - 1
    /\ Becomes([Window EXCEPT !.workers = emit_error(@, w),
                              !.result_text = << "Error: ", ErrorMessage >>])
    /\ last' = [op |-> "refine_error", stale |-> FALSE]
    /\ UNCHANGED << launched, clicks_left, run_vars >>

\* finished of a refine worker: connected to thread.quit and deleteLater only.
RefineFinished(w) ==
    /\ w \in BagToSet(workers)
    /\ w.mode = "Refine"
    /\ Becomes([Window EXCEPT !.workers = emit_finished(@, w)])
    /\ last' = [op |-> "refine_finished", stale |-> FALSE]
    /\ UNCHANGED << launched, budget, run_vars >>

InitRefine ==
    /\ Constructed(SubSeq(get_chat_modes, 1, RefinePanels))
    /\ clicks_left = RefineClicks
    /\ events_left = MaxEvents
    /\ NotStarted

\* The scheduler with the refine task: the chunk and error events are those of the
\* refine workers.
NextRefine ==
    \/ Launch
    \/ RunAll
    \/ \E mode_name \in Modes : Refresh(mode_name)
    \/ \E combined_text \in CombinedTexts : Refine(combined_text)
    \/ \E w \in BagToSet(workers) : Finished(w)
    \/ \E w \in BagToSet(workers) : RefineChunk(w)
    \/ \E w \in BagToSet(workers) : RefineError(w)
    \/ \E w \in BagToSet(workers) : RefineFinished(w)

SpecRefine == InitRefine /\ [][NextRefine]_vars

\* ------------------------------------------------------- ApiWorker.run

\* Lines read from one response body.
MaxLines == 2

\* max_retries, with one more retry.
max_retries_more == 3 + 1

\* max_retries
max_retries == 3

\* max_backoff, in milliseconds
max_backoff == 10000

\* step of the wait after a retryable HTTP status, in milliseconds
http_step == 100

\* step of the wait after a transient network error, in milliseconds
network_step == 200

\* base_backoff ** n, in milliseconds (base_backoff = 1.5)
RECURSIVE base_backoff_pow(_)
base_backoff_pow(n) == IF n = 0 THEN 1000 ELSE (base_backoff_pow(n - 1) * 3) \div 2

\* secure_random.uniform(0, 0.5), in milliseconds: the ends of the interval.
Jitters == { 0, 500 }

\* min(max_backoff, (base_backoff**attempt) + secure_random.uniform(0, 0.5))
backoff(n, jitter) == Min(max_backoff, base_backoff_pow(n) + jitter)

Digits == << "0", "1", "2", "3", "4", "5", "6", "7", "8", "9" >>

\* str.isdigit(), when no header counts as numeric.
isdigit_never(hdr) == FALSE

\* str.isdigit(): non-empty and made of digits only.
isdigit(hdr) == hdr # <<>> /\ \A i \in 1..Len(hdr) : hdr[i] \in Range(Digits)

\* float(hdr) of a string of digits, in milliseconds.
RECURSIVE float(_)
float(hdr) ==
    IF hdr = <<>> THEN 0
    ELSE LET d == CHOOSE k \in 1..Len(Digits) : Digits[k] = hdr[Len(hdr)]
         IN  float(SubSeq(hdr, 1, Len(hdr) - 1)) * 10 + (d - 1) * 1000

\* The statuses the endpoint answers with, and the Retry-After headers (<<>>: none).
Statuses == { 200, 404, 429, 503 }
RetryAfterHeaders == { <<>>, << "2" >>, << "1", "2" >>, << "s" >> }

\* raise_for_status() raises HTTPError for 4xx and 5xx.
raises_for_status(status) == 400 <= status /\ status < 600

\* The classification of a status, when every status is retried.
retryable_any(status) == TRUE

\* status == 429 or 500 <= status < 600
retryable(status) == status = 429 \/ (500 <= status /\ status < 600)

\* signal.emit(arg)
emit(signals, signal, arg) == Append(signals, [signal |-> signal, arg |-> arg])

\* The error emission of the except clauses, without its interruption guard.
emit_error_unguarded(signals, interrupted, message) ==
    emit(signals, "error_occurred", message)

\* `if not QThread.currentThread().isInterruptionRequested(): self.error_occurred.emit(...)`
emit_error_unless_interrupted(signals, interrupted, message) ==
    IF ~interrupted THEN emit(signals, "error_occurred", message) ELSE signals

\* The chunk of a line, when every line carries the first chunk of the stream.
response_chunk_first(resp) == Stream[1]

\* data.get("response", ""): the chunk the next line of the body carries.
response_chunk(resp) == Stream[(resp.chunks % Len(Stream)) + 1]

\* thread.requestInterruption(), from the window's thread, at any time before run is over.
RequestInterruption ==
    /\ pc \notin {"returned", "raised"}
    /\ ~isInterruptionRequested
    /\ isInterruptionRequested' = TRUE
    /\ UNCHANGED window_vars
    /\ UNCHANGED << pc, attempt, response, sleep_secs, slept, emitted, requests >>

\* thread.started: run is entered, attempt = 0.
RunEntered ==
    /\ pc = "not_started"
    /\ pc' = "loop"
    /\ attempt' = 0
    /\ UNCHANGED window_vars
    /\ UNCHANGED << response, sleep_secs, slept, isInterruptionRequested, emitted,
                    requests >>

\* The head of the retry loop: the check before the request.
LoopHead ==
    /\ pc = "loop"
    /\ attempt <= max_retries
    /\ IF isInterruptionRequested
       THEN /\ emitted' = emit(emitted, "finished", "")
            /\ pc' = "returned"
       ELSE /\ pc' = "post"
            /\ UNCHANGED emitted
    /\ UNCHANGED window_vars
    /\ UNCHANGED << attempt, response, sleep_secs, slept, isInterruptionRequested,
                    requests >>

\* requests.post(..., stream=True, timeout=20): a response, or an exception.
Post ==
    /\ pc = "post"
    /\ requests' = requests + 1
    /\ \/ \E status \in Statuses, hdr \in RetryAfterHeaders :
            /\ response' = [status |-> status, retry_after |-> hdr, lines |-> 0,
                            chunks |-> 0]
            /\ pc' = "status"
       \/ /\ pc' \in {"except_network", "except_request"}
          /\ response' = NoResponse
    /\ UNCHANGED window_vars
    /\ UNCHANGED << attempt, sleep_secs, slept, isInterruptionRequested, emitted >>

\* response.raise_for_status() and the classification of the status.
Status ==
    /\ pc = "status"
    /\ IF ~raises_for_status(response.status)
       THEN /\ pc' = "stream"
            /\ UNCHANGED << sleep_secs, slept, response >>
       ELSE IF retryable(response.status)
       THEN \E jitter \in Jitters :
              /\ sleep_secs' = IF isdigit(response.retry_after)
                               THEN float(response.retry_after)
                               ELSE backoff(attempt, jitter)
              /\ IF attempt < max_retries /\ ~isInterruptionRequested
                 THEN /\ slept' = 0
                      /\ pc' = "sleep_http"
                      /\ response' = NoResponse
                 ELSE /\ pc' = "except_http"
                      /\ UNCHANGED << slept, response >>
       ELSE /\ pc' = "except_http"
            /\ UNCHANGED << sleep_secs, slept, response >>
    /\ UNCHANGED window_vars
    /\ UNCHANGED << attempt, isInterruptionRequested, emitted, requests >>

\* One turn of a wait loop, without its interruption check.
Sleep_unchecked(at, step) ==
    /\ pc = at
    /\ IF slept < sleep_secs
       THEN /\ slept' = slept + step
            /\ UNCHANGED << pc, attempt, emitted, sleep_secs >>
       ELSE /\ attempt' = attempt + 1
            /\ pc' = "loop"
            /\ slept' = 0
            /\ sleep_secs' = 0
            /\ UNCHANGED emitted
    /\ UNCHANGED window_vars
    /\ UNCHANGED << response, isInterruptionRequested, requests >>

\* One turn of a wait loop: `while slept < sleep_secs`, with the interruption check.
Sleep(at, step) ==
    /\ pc = at
    /\ IF slept < sleep_secs
       THEN IF isInterruptionRequested
            THEN /\ emitted' = emit(emitted, "finished", "")
                 /\ pc' = "returned"
                 /\ UNCHANGED << slept, attempt, sleep_secs >>
            ELSE /\ slept' = slept + step
                 /\ UNCHANGED << pc, attempt, emitted, sleep_secs >>
       ELSE /\ attempt' = attempt + 1
            /\ pc' = "loop"
            /\ slept' = 0
            /\ sleep_secs' = 0
            /\ UNCHANGED emitted
    /\ UNCHANGED window_vars
    /\ UNCHANGED << response, isInterruptionRequested, requests >>

SleepHttp == Sleep("sleep_http", http_step)

SleepNetwork == Sleep("sleep_network", network_step)

\* response.lines: the lines read from the body; response.chunks: those that carried a
\* chunk, so that the next chunk of the stream is Stream[response.chunks + 1].
\* What iter_lines gives next: a line of the body, the end of the body, or an exception.
LineKinds == { "chunk", "done", "empty", "malformed" }

\* `for line in response.iter_lines()`: one turn of the streaming loop.
StreamLine ==
    /\ pc = "stream"
    /\ \/ \E kind \in LineKinds :
            /\ response.lines < MaxLines
            /\ response' = [response EXCEPT
                              !.lines = @ + 1,
                              !.chunks = IF kind \in {"chunk", "done"}
                                            /\ ~isInterruptionRequested
                                         THEN @ + 1 ELSE @]
            /\ IF isInterruptionRequested
               THEN /\ pc' = "after_loop"
                    /\ UNCHANGED emitted
               ELSE CASE kind = "empty" ->
                           /\ UNCHANGED << pc, emitted >>
                      [] kind = "malformed" ->
                           /\ pc' = "raised"
                           /\ UNCHANGED emitted
                      [] OTHER ->
                           /\ emitted' = emit(emit(emitted, "chunk_received",
                                                   response_chunk(response)),
                                              "chunk_received_with_mode",
                                              response_chunk(response))
                           /\ pc' = IF kind = "done" THEN "after_loop" ELSE "stream"
       \/ /\ pc' = "after_loop"
          /\ UNCHANGED << response, emitted >>
       \/ /\ pc' \in {"except_network", "except_request"}
          /\ response' = NoResponse
          /\ UNCHANGED emitted
    /\ UNCHANGED window_vars
    /\ UNCHANGED << attempt, sleep_secs, slept, isInterruptionRequested, requests >>

\* `continue` in the place of the `break` of an except clause.
break_continue == "loop"

\* `break` after the error emission of an except clause: run goes on after the loop.
break == "after_loop"

\* except requests.exceptions.HTTPError
ExceptHTTPError ==
    /\ pc = "except_http"
    /\ emitted' = emit_error_unless_interrupted(emitted, isInterruptionRequested,
                                                "API request failed")
    /\ pc' = break
    /\ UNCHANGED window_vars
    /\ UNCHANGED << attempt, response, sleep_secs, slept, isInterruptionRequested,
                    requests >>

\* except (ConnectTimeout, ReadTimeout, ChunkedEncodingError, ConnectionError)
ExceptNetworkError ==
    /\ pc = "except_network"
    /\ \E jitter \in Jitters :
         /\ sleep_secs' = backoff(attempt, jitter)
         /\ IF attempt < max_retries /\ ~isInterruptionRequested
            THEN /\ slept' = 0
                 /\ pc' = "sleep_network"
                 /\ UNCHANGED emitted
            ELSE /\ emitted' = emit_error_unless_interrupted(
                                   emitted, isInterruptionRequested, "Network error")
                 /\ pc' = break
                 /\ UNCHANGED slept
    /\ UNCHANGED window_vars
    /\ UNCHANGED << attempt, response, isInterruptionRequested, requests >>

\* except requests.exceptions.RequestException
ExceptRequestException ==
    /\ pc = "except_request"
    /\ emitted' = emit_error_unless_interrupted(emitted, isInterruptionRequested,
                                                "API request failed")
    /\ pc' = break
    /\ UNCHANGED window_vars
    /\ UNCHANGED << attempt, response, sleep_secs, slept, isInterruptionRequested,
                    requests >>

\* After the loop: self.finished.emit()
AfterLoop ==
    /\ pc = "after_loop"
    /\ emitted' = emit(emitted, "finished", "")
    /\ pc' = "returned"
    /\ UNCHANGED window_vars
    /\ UNCHANGED << attempt, response, sleep_secs, slept, isInterruptionRequested,
                    requests >>

NextRun ==
    \/ RequestInterruption
    \/ RunEntered
    \/ LoopHead
    \/ Post
    \/ Status
    \/ SleepHttp
    \/ SleepNetwork
    \/ StreamLine
    \/ ExceptHTTPError
    \/ ExceptNetworkError
    \/ ExceptRequestException
    \/ AfterLoop

InitRun ==
    /\ Constructed(get_chat_modes)
    /\ clicks_left = 0
    /\ events_left = 0
    /\ NotStarted

WorkerSpec == InitRun /\ [][NextRun]_vars

\* The thread of the worker runs: a step of run that can be taken is taken.
RunStep ==
    \/ RunEntered
    \/ LoopHead
    \/ Post
    \/ Status
    \/ SleepHttp
    \/ SleepNetwork
    \/ StreamLine
    \/ ExceptHTTPError
    \/ ExceptNetworkError
    \/ ExceptRequestException
    \/ AfterLoop

WorkerLive == WorkerSpec /\ WF_vars(RunStep)

\* ------------------------------------------------------- properties

\* The main text is not blank: run_all_generations and refresh_mode go past their guard.
HasInput == \E i \in 1..Len(main_clipboard_text) : main_clipboard_text[i] \notin Whitespace

\* How often x occurs in a list.
Occurrences(list, x) == Cardinality({ i \in 1..Len(list) : list[i] = x })

\* The live workers of mode m, as a bag.
WorkersOf(ws, m) == [ w \in { x \in BagToSet(ws) : x.mode = m } |-> ws[w] ]

\* The live workers of mode m whose generation is gen, as a bag.
WorkersAt(ws, m, gen) ==
    [ w \in { x \in BagToSet(ws) : x.mode = m /\ x.gen = gen } |-> ws[w] ]

\* The tasks of mode m that are queued or running: its live workers and its entries in
\* pending_modes.
Tasks(m) == BagCardinality(WorkersOf(workers, m)) + Occurrences(pending_modes, m)

\* The queued or running tasks of mode m that belong to its current generation.
CurrentTasks(m) ==
    BagCardinality(WorkersAt(workers, m, mode_generations[m]))
        + Occurrences(pending_modes, m)

\* C1: the size of running_modes never exceeds max_concurrent_requests.
C1_RunningWithinLimit == Cardinality(running_modes) <= max_concurrent_requests

\* C2, as stated: counting a worker from its start until its finished event and every
\* entry of pending_modes, no mode has more than one task queued or running.
C2_OneTaskPerMode == \A m \in Modes : Tasks(m) <= 1

\* C2, amended: no mode has more than one queued or running task of its current
\* generation; the workers of superseded generations live on beside it until they
\* deliver finished.
C2_OneCurrentTaskPerMode == \A m \in Modes : CurrentTasks(m) <= 1

\* A mode whose superseded worker is alive beside the task of its current generation.
C2_Witness == \E m \in Modes : Tasks(m) >= 2 /\ CurrentTasks(m) = 1

\* The fields of mode m an event may show to the user.
Visible(m) == << mode_results[m], mode_errors[m], mode_status[m], panel_text[m] >>

\* C3: a chunk or error event of a worker whose generation is not the current generation
\* of its mode changes none of the mode's results, errors, status and panel text.
C3_StaleEventsDropped ==
    [][ \A w \in BagToSet(workers) :
          ((Chunk(w) \/ Error(w)) /\ w.gen # mode_generations[w.mode])
              => UNCHANGED Visible(w.mode) ]_vars

\* A chunk or error event of a superseded worker has been delivered.
C3_Witness == last.stale /\ last.op \in {"chunk", "error"}

\* The worker start_next_in_queue starts for the mode at the front of pending_modes.
NextWorker ==
    [ mode |-> Head(pending_modes), gen |-> mode_generations[Head(pending_modes)],
      interrupted |-> FALSE, errored |-> FALSE, sent |-> 0 ]

\* The finished event of w frees the slot of w's mode and starts the mode at the front
\* of pending_modes, if there is one.
Advances(w) ==
    IF pending_modes = <<>>
    THEN /\ running_modes' = running_modes \ {w.mode}
         /\ workers' = workers (-) SetToBag({w})
         /\ UNCHANGED pending_modes
    ELSE /\ running_modes' = (running_modes \ {w.mode}) \cup {Head(pending_modes)}
         /\ workers' = (workers (-) SetToBag({w})) (+) SetToBag({NextWorker})
         /\ pending_modes' = Tail(pending_modes)

\* C4, as stated: a finished event of a superseded generation removes its mode from
\* running_modes and starts the next pending mode, and leaves the status, results and
\* errors of its mode unchanged.
C4_StaleFinished ==
    [][ \A w \in BagToSet(workers) :
          (Finished(w) /\ w.gen # mode_generations[w.mode])
              => /\ Advances(w)
                 /\ w.mode \notin running_modes'
                 /\ UNCHANGED << mode_status[w.mode], mode_results[w.mode],
                                 mode_errors[w.mode] >> ]_vars

\* C4, amended: a finished event of a superseded generation frees the slot of its mode,
\* starts the next pending mode, and leaves the results and errors of its mode
\* unchanged; its mode leaves running_modes with its status unchanged unless the mode
\* itself is at the front of pending_modes (refreshed while running), and then the
\* event starts the mode's new worker: the mode is in running_modes again, with status
\* "running".
C4_StaleFinishedUnlessRequeued ==
    [][ \A w \in BagToSet(workers) :
          (Finished(w) /\ w.gen # mode_generations[w.mode])
              => /\ Advances(w)
                 /\ UNCHANGED << mode_results[w.mode], mode_errors[w.mode] >>
                 /\ IF pending_modes # <<>> /\ Head(pending_modes) = w.mode
                    THEN /\ w.mode \in running_modes'
                         /\ mode_status'[w.mode] = "running"
                    ELSE /\ w.mode \notin running_modes'
                         /\ UNCHANGED mode_status[w.mode] ]_vars

\* The finished event of a superseded worker has been handled.
C4_Witness == last.op = "finished" /\ last.stale

\* C5: with the 9 modes and a non-blank text, run_all_generations leaves the first 3
\* modes running, each with one worker, and the other 6 in pending_modes; every finished
\* event starts exactly one worker, for the mode at the front of pending_modes, and
\* none when pending_modes is empty.
C5_ThreeStartedSixQueued ==
    [][ /\ ((Launch \/ RunAll) /\ HasInput')
            => /\ running_modes' = Range(SubSeq(get_chat_modes, 1, 3))
               /\ pending_modes' = SubSeq(get_chat_modes, 4, 9)
               /\ \A m \in running_modes' :
                    /\ mode_status'[m] = "running"
                    /\ BagCardinality(WorkersAt(workers', m, current_generation')) = 1
               /\ \A m \in Range(pending_modes') :
                    /\ mode_status'[m] = "queued"
                    /\ BagCardinality(WorkersAt(workers', m, current_generation')) = 0
        /\ \A w \in BagToSet(workers) : Finished(w) => Advances(w) ]_vars

\* A finished event has started a mode queued by run_all_generations on the 9 modes.
C5_Witness ==
    /\ Len(mode_panels) = 9
    /\ last.op = "finished"
    /\ Cardinality(running_modes) = 3
    /\ Len(pending_modes) = 5

\* The entries of pending_modes are in the order of their requests, latest first: a
\* refreshed mode is ahead of the modes queued by the run_all_generations before it.
LatestFirst ==
    \A i, j \in 1..Len(pending_modes) :
        i < j => mode_generations[pending_modes[i]] >= mode_generations[pending_modes[j]]

\* C6: refresh_mode(m) with running_modes full puts m at index 0 of pending_modes; a
\* refreshed mode stays ahead of the modes queued by run_all_generations, and the mode
\* a finished event starts is the one at the front of pending_modes.
C6_RefreshedFirst ==
    /\ []LatestFirst
    /\ [][ /\ \A m \in Modes :
                (Refresh(m) /\ HasInput
                   /\ Cardinality(running_modes) >= max_concurrent_requests)
                    => /\ pending_modes' # <<>>
                       /\ pending_modes'[1] = m
                       /\ Occurrences(pending_modes', m) = 1
           /\ \A w \in BagToSet(workers) :
                (Finished(w) /\ pending_modes # <<>>)
                    => /\ pending_modes' = Tail(pending_modes)
                       /\ NextWorker \in BagToSet(workers') ]_vars

\* refresh_mode has queued a mode, with running_modes full, ahead of a mode queued by
\* run_all_generations.
C6_Witness ==
    /\ last.op = "refresh"
    /\ Cardinality(running_modes) >= max_concurrent_requests
    /\ Len(pending_modes) >= 2
    /\ mode_generations[pending_modes[1]] = current_generation
    /\ mode_generations[pending_modes[2]] < current_generation

\* The worker refresh_mode(m) starts.
Refreshed(m) ==
    [ mode |-> m, gen |-> current_generation + 1,
      interrupted |-> FALSE, errored |-> FALSE, sent |-> 0 ]

\* C7, as stated: refresh_mode(m) with a non-blank text and a free slot starts a worker
\* for m with the new generation and does not put m in pending_modes.
C7_FreeSlotStarts ==
    [][ \A m \in Modes :
          (Refresh(m) /\ HasInput
             /\ Cardinality(running_modes) < max_concurrent_requests)
              => /\ Refreshed(m) \in BagToSet(workers')
                 /\ m \in running_modes'
                 /\ ~InList(pending_modes', m) ]_vars

\* C7, amended: refresh_mode(m) with a non-blank text and a free slot starts a worker for
\* m with the new generation and does not put m in pending_modes when m is not in
\* running_modes; when m is in running_modes it puts m at index 0 of pending_modes and
\* starts no worker.
C7_FreeSlotStartsUnlessRunning ==
    [][ \A m \in Modes :
          (Refresh(m) /\ HasInput
             /\ Cardinality(running_modes) < max_concurrent_requests)
              => IF m \notin running_modes
                 THEN /\ Refreshed(m) \in BagToSet(workers')
                      /\ m \in running_modes'
                      /\ ~InList(pending_modes', m)
                 ELSE /\ pending_modes'[1] = m
                      /\ Refreshed(m) \notin BagToSet(workers')
                      /\ BagCardinality(workers') = BagCardinality(workers) ]_vars

\* refresh_mode has started a worker itself: the worker has the generation of the
\* refresh, and no finished event has come since.
C7_Witness ==
    /\ last.op = "refresh"
    /\ \E w \in BagToSet(workers) :
         /\ w.gen = current_generation
         /\ w.gen = mode_generations[w.mode]
         /\ ~InList(pending_modes, w.mode)

\* pending_modes without the entries of mode m.
Others(list, m) == SelectSeq(list, LAMBDA n : n # m)

\* C8: refresh_mode(m) leaves, for every other mode n, its generation, status, results,
\* errors and membership in running_modes as they were, keeps the order of the other
\* entries of pending_modes, and requests no interruption of a worker of n.
C8_RefreshTouchesOneMode ==
    [][ \A m \in Modes :
          Refresh(m)
              => /\ \A n \in Modes \ {m} :
                      /\ UNCHANGED << mode_generations[n], mode_status[n],
                                      mode_results[n], mode_errors[n] >>
                      /\ (n \in running_modes') = (n \in running_modes)
                      /\ WorkersOf(workers', n) = WorkersOf(workers, n)
                 /\ Others(pending_modes', m) = Others(pending_modes, m) ]_vars

\* refresh_mode has interrupted the worker of its mode while a worker of another mode is
\* running and a third mode is queued.
C8_Witness ==
    /\ last.op = "refresh"
    /\ \E w, v \in BagToSet(workers) :
         /\ w.interrupted
         /\ w.gen # mode_generations[w.mode]
         /\ v.mode # w.mode
         /\ ~v.interrupted
         /\ \E i \in 1..Len(pending_modes) : pending_modes[i] \notin {w.mode, v.mode}

\* C9: with an empty or blank main text, run_all_generations and refresh_mode start no
\* worker, write the notice to exactly one panel, and leave current_generation,
\* mode_generations, mode_status, running_modes and pending_modes unchanged.
C9_BlankInputShortCircuits ==
    [][ ( /\ \/ RunAll
             \/ \E m \in Modes : Refresh(m)
             \/ Launch /\ main_clipboard_text' # <<>>
          /\ ~HasInput' )
            => /\ workers' = workers
               /\ \E m \in Modes : panel_text' = [panel_text EXCEPT ![m] = EmptyNotice]
               /\ UNCHANGED << current_generation, mode_generations, mode_status,
                               running_modes, pending_modes >> ]_vars

\* A click on a blank main text has been answered with the notice, and nothing runs.
C9_Witness ==
    /\ last.op \in {"run_all", "refresh"}
    /\ main_clipboard_text # <<>>
    /\ ~HasInput
    /\ \E m \in Modes : panel_text[m] = EmptyNotice
    /\ workers = EmptyBag

\* How often run has emitted a signal.
Emitted(signal) == Cardinality({ i \in 1..Len(emitted) : emitted[i].signal = signal })

\* C10: when ApiWorker.run is over, it has emitted finished exactly once and
\* error_occurred at most once.
C10_FinishedExactlyOnce ==
    pc \in {"returned", "raised"}
        => Emitted("finished") = 1 /\ Emitted("error_occurred") <= 1

\* The chunks run has emitted to the panel of its mode, in the order of emission.
ChunksEmitted ==
    LET with_mode == SelectSeq(emitted, LAMBDA e : e.signal = "chunk_received_with_mode")
    IN  [ i \in 1..Len(with_mode) |-> with_mode[i].arg ]

\* C11: the chunks run has emitted are the first chunks of the response stream, each
\* once and in stream order, whether or not the request was retried.
C11_ChunksOnceInOrder ==
    /\ Len(ChunksEmitted) <= Len(Stream)
    /\ ChunksEmitted = SubSeq(Stream, 1, Len(ChunksEmitted))

\* The signals run emitted last, at most n of them.
LastEmitted(n) ==
    SubSeq(emitted, IF Len(emitted) > n THEN Len(emitted) - n + 1 ELSE 1, Len(emitted))

\* run is over and no interruption was requested during it.
ReturnedUninterrupted == pc = "returned" /\ ~isInterruptionRequested

\* run has emitted one error_occurred, with this message, and then finished, and no other
\* error_occurred or finished.
SurfacedOnce(message) ==
    /\ LastEmitted(2) = << [signal |-> "error_occurred", arg |-> message],
                           [signal |-> "finished", arg |-> ""] >>
    /\ Emitted("error_occurred") = 1
    /\ Emitted("finished") = 1

\* C12: one execution of run issues at most 4 requests, whatever fails; with no
\* interruption requested, a run whose last response had a retryable status (429, 5xx)
\* has issued 4 requests and emitted one error_occurred and then finished, a run whose
\* last request raised has emitted one error_occurred and then finished, and "Network
\* error" is emitted only after the 4th request.
C12_FourRequestsThenError ==
    /\ requests <= 4
    /\ Emitted("error_occurred") <= 1
    /\ (ReturnedUninterrupted /\ retryable(response.status))
         => /\ requests = 4
            /\ SurfacedOnce("API request failed")
    /\ (ReturnedUninterrupted /\ response = NoResponse)
         => \/ SurfacedOnce("API request failed")
            \/ SurfacedOnce("Network error")
    /\ (\E i \in 1..Len(emitted) : emitted[i].arg = "Network error")
         => /\ requests = 4
            /\ attempt = max_retries

\* The 4th request failed as the three before it, and run is over.
C12_Witness ==
    /\ ReturnedUninterrupted
    /\ requests = 4
    /\ \/ retryable(response.status)
       \/ SurfacedOnce("Network error")

\* The last n chunks run has emitted.
LastChunks(n) ==
    SubSeq(ChunksEmitted, Len(ChunksEmitted) - n + 1, Len(ChunksEmitted))

\* run is over, uninterrupted, and its last request was answered with a success status
\* and a body that was read to its end.
Succeeded == ReturnedUninterrupted /\ response.status = 200

\* C13: with no interruption requested, a retryable status with retries left makes run
\* wait and try again without emitting anything, and a run whose last request succeeded,
\* after any number of such failures, has emitted no error_occurred, has emitted the
\* chunks of the successful response in stream order, and has emitted finished last,
\* once.
C13_SuccessAfterRetries ==
    /\ [](Succeeded
            => /\ Emitted("error_occurred") = 0
               /\ Emitted("finished") = 1
               /\ LastEmitted(1) = << [signal |-> "finished", arg |-> ""] >>
               /\ response.chunks <= Len(ChunksEmitted)
               /\ LastChunks(response.chunks) = SubSeq(Stream, 1, response.chunks))
    /\ [][ ( /\ Status
             /\ response.status \in {429, 503}
             /\ attempt < max_retries
             /\ ~isInterruptionRequested )
              => /\ pc' = "sleep_http"
                 /\ UNCHANGED << emitted, attempt >> ]_vars
    /\ [][ (SleepHttp /\ pc' = "loop") => attempt' = attempt + 1 ]_vars

\* Three requests failed with a retryable status, the 4th succeeded and its two chunks
\* were emitted.
C13_Witness ==
    /\ Succeeded
    /\ requests = 4
    /\ response.chunks = 2
    /\ ChunksEmitted = SubSeq(Stream, 1, 2)

\* C14: a 429 or 5xx response with the header Retry-After: 2 sets the wait to 2 seconds,
\* one with Retry-After: 12 sets it to 12 seconds, more than max_backoff and without
\* jitter; the waiting loop adds 0.1 s per turn and leaves the wait unchanged, and it is
\* left for the next attempt only when the time slept has reached the wait.
C14_RetryAfterHonoured ==
    /\ [][ (Status /\ retryable(response.status))
              => /\ response.retry_after = << "2" >> => sleep_secs' = 2000
                 /\ response.retry_after = << "1", "2" >> => sleep_secs' = 12000 ]_vars
    /\ [][ SleepHttp
              => IF pc' = "loop"
                 THEN slept >= sleep_secs /\ attempt' = attempt + 1
                 ELSE IF pc' = "sleep_http"
                 THEN slept < sleep_secs /\ slept' = slept + 100
                                         /\ sleep_secs' = sleep_secs
                 ELSE isInterruptionRequested /\ pc' = "returned" ]_vars
    /\ [](pc = "sleep_http" => slept < sleep_secs + 100)
    /\ [][ Post => pc = "post" /\ slept = 0 ]_vars

\* The wait of 12 seconds asked by Retry-After: 12 has been slept in full.
C14_Witness ==
    /\ pc = "sleep_http"
    /\ sleep_secs = 12000
    /\ slept = 12000
    /\ ~isInterruptionRequested

\* C15: a response with status 404 (an error status that is neither 429 nor 5xx) is
\* never retried, at any attempt: run goes to the HTTPError handler without a wait, and
\* when it is over the 404 was the answer to its last request, it has emitted finished
\* once and last, and one error_occurred just before it unless an interruption was
\* requested.
C15_NonRetryableStatus ==
    /\ [][ (Status /\ response.status = 404)
              => /\ pc' = "except_http"
                 /\ UNCHANGED << emitted, requests, attempt, response >> ]_vars
    /\ [](response.status = 404
            => /\ pc \in {"status", "except_http", "after_loop", "returned"}
               /\ requests = attempt + 1)
    /\ []((pc = "returned" /\ response.status = 404)
            => /\ Emitted("finished") = 1
               /\ LastEmitted(1) = << [signal |-> "finished", arg |-> ""] >>
               /\ Emitted("error_occurred") <= 1
               /\ ~isInterruptionRequested => SurfacedOnce("API request failed"))

\* The third request, after two retries, was answered with 404, and run is over.
C15_Witness ==
    /\ ReturnedUninterrupted
    /\ response.status = 404
    /\ attempt = 2
    /\ requests = 3

\* run has read a malformed line from the body of a successful response: json.loads,
\* or data.get on a value that is no object, raised.
MalformedLineRead == pc = "raised" /\ response.status = 200 /\ response.lines > 0

\* run is over: it returned, or an exception left it.
RunOver == pc \in {"returned", "raised"}

\* C16: a run that has read a malformed line ends having emitted one error_occurred and
\* then finished.
C16_MalformedLineSurfaced ==
    (RunOver /\ MalformedLineRead) => SurfacedOnce("API request failed")

\* run has emitted finished, once, as its last signal.
FinishedLast ==
    /\ Emitted("finished") = 1
    /\ LastEmitted(1) = << [signal |-> "finished", arg |-> ""] >>

\* C17: once an interruption is requested, run emits nothing but finished: no chunk and
\* no error_occurred; the chunks of the response being streamed were emitted in stream
\* order; and an interruption requested while run is streaming leads to the end of run
\* with finished emitted once, after the chunks.
C17_InterruptedWhileStreaming ==
    /\ [][ isInterruptionRequested
              => \/ emitted' = emitted
                 \/ emitted' = Append(emitted, [signal |-> "finished", arg |-> ""]) ]_vars
    /\ []((pc \in {"stream", "after_loop", "returned"} /\ response.status = 200)
            => /\ response.chunks <= Len(ChunksEmitted)
               /\ LastChunks(response.chunks) = SubSeq(Stream, 1, response.chunks))
    /\ []((pc = "returned" /\ isInterruptionRequested) => FinishedLast)
    /\ (isInterruptionRequested /\ pc = "stream") ~> (pc = "returned" /\ FinishedLast)

\* The interruption was observed at the second line of the body, after one chunk: run
\* is over with that chunk emitted and no error.
C17_Witness ==
    /\ pc = "returned"
    /\ isInterruptionRequested
    /\ response.status = 200
    /\ response.lines = 2
    /\ response.chunks = 1
    /\ ChunksEmitted = SubSeq(Stream, 1, 1)
    /\ Emitted("error_occurred") = 0

\* run is in a backoff wait, or at the head of the loop, before the next request.
Waiting == pc \in {"loop", "sleep_http", "sleep_network"}

\* C18: with an interruption requested, a run that is in a backoff wait or before its
\* next request sleeps no further step, issues no request and emits no error: its next
\* step from a wait emits finished and returns, or ends a wait that is over, and its
\* next step from the head of the loop emits finished and returns; and it does reach
\* that end.
C18_InterruptedWhileWaiting ==
    /\ [][ (isInterruptionRequested /\ Waiting /\ pc' # pc)
              => /\ requests' = requests
                 /\ slept' <= slept
                 /\ \/ /\ pc' = "returned"
                       /\ emitted' = Append(emitted, [signal |-> "finished", arg |-> ""])
                    \/ /\ pc \in {"sleep_http", "sleep_network"}
                       /\ slept >= sleep_secs
                       /\ pc' = "loop"
                       /\ emitted' = emitted ]_vars
    /\ [][ (isInterruptionRequested /\ Waiting /\ pc' = pc) => UNCHANGED run_vars ]_vars
    /\ (isInterruptionRequested /\ Waiting) ~> (pc = "returned" /\ FinishedLast)

\* The interruption was observed in the middle of the wait after the first request: run
\* is over with finished alone emitted.
C18_Witness ==
    /\ pc = "returned"
    /\ isInterruptionRequested
    /\ 0 < slept
    /\ slept < sleep_secs
    /\ requests = 1
    /\ emitted = << [signal |-> "finished", arg |-> ""] >>

\* C19: an error event of the current worker of mode m sets m's status to "error" and
\* m's error message, and leaves m's results, every other mode's status, results, errors
\* and panel text, running_modes and pending_modes as they were; the finished event of
\* that worker then takes m out of running_modes, leaves m's status "error", and starts
\* the mode at the front of pending_modes, if any.
C19_ErrorIsPerMode ==
    /\ [][ \A w \in BagToSet(workers) :
             (Error(w) /\ w.gen = mode_generations[w.mode])
                 => /\ mode_status'[w.mode] = "error"
                    /\ mode_errors'[w.mode] = ErrorMessage
                    /\ UNCHANGED << mode_results, running_modes, pending_modes,
                                    mode_generations >>
                    /\ \A n \in Modes \ {w.mode} :
                         UNCHANGED << mode_status[n], mode_errors[n], panel_text[n] >>
                    /\ WorkersOf(workers', w.mode) # EmptyBag ]_vars
    /\ [][ \A w \in BagToSet(workers) :
             (Finished(w) /\ w.errored /\ w.gen = mode_generations[w.mode])
                 => /\ Advances(w)
                    /\ w.mode \notin running_modes'
                    /\ mode_status'[w.mode] = "error"
                    /\ UNCHANGED << mode_errors, mode_results >> ]_vars

\* A mode has failed and its worker has finished: the mode is out of running_modes, the
\* next queued mode has taken its slot, and no other mode is marked as failed.
C19_Witness ==
    /\ last.op = "finished"
    /\ ~last.stale
    /\ Cardinality(running_modes) = max_concurrent_requests
    /\ Len(pending_modes) = 1
    /\ \E m \in Modes :
         /\ mode_status[m] = "error"
         /\ mode_errors[m] = ErrorMessage
         /\ m \notin running_modes
         /\ WorkersOf(workers, m) = EmptyBag
         /\ \A n \in Modes \ {m} : mode_status[n] \in {"running", "queued"}

\* Nothing is queued, nothing is running, and every mode is done or has failed.
Quiescent ==
    /\ pending_modes = <<>>
    /\ running_modes = {}
    /\ \A m \in Modes : mode_status[m] \in {"done", "error"}

\* C20: when every started worker eventually delivers finished and the user stops
\* clicking, the window launched on a non-blank text reaches, after any run_all_generations
\* and refresh_mode, a state from which pending_modes and running_modes stay empty and
\* every mode stays done or failed.
C20_NeverStalls == [](launched /\ HasInput => <>[]Quiescent)

\* After a click on "Refresh All" or on a panel's refresh button, everything is over.
C20_Witness ==
    /\ launched
    /\ HasInput
    /\ clicks_left = 0
    /\ Quiescent
    /\ workers = EmptyBag

\* What the scheduler keeps about the modes.
SlotAccounting == << running_modes, pending_modes, mode_generations, mode_status >>

\* The live refine workers.
RefineWorkers == { w \in BagToSet(workers) : w.mode = "Refine" }

\* C21: run_refine_generation leaves running_modes, pending_modes, mode_generations and
\* every mode's status unchanged and, on a non-blank text, starts its worker whatever
\* the size of running_modes; the chunk, error and finished events of a refine worker
\* leave them unchanged too, and start no worker.
C21_RefineOutsideSlots ==
    /\ [][ \A combined_text \in CombinedTexts :
             Refine(combined_text)
                 => /\ UNCHANGED SlotAccounting
                    /\ (\E i \in 1..Len(combined_text) : combined_text[i] \notin Whitespace)
                         => workers' = workers (+) SetToBag({
                                [ mode |-> "Refine", gen |-> current_generation + 1,
                                  interrupted |-> FALSE, errored |-> FALSE,
                                  sent |-> 0 ] }) ]_vars
    /\ [][ \A w \in RefineWorkers :
             (RefineChunk(w) \/ RefineError(w) \/ RefineFinished(w))
                 => /\ UNCHANGED SlotAccounting
                    /\ BagCardinality(workers') <= BagCardinality(workers)
                    /\ \A m \in Modes : WorkersOf(workers', m) = WorkersOf(workers, m) ]_vars

\* A refine worker was started with running_modes full and a mode queued, and it has
\* finished: the queued mode is still queued.
C21_Witness ==
    /\ last.op = "refine_finished"
    /\ Cardinality(running_modes) = max_concurrent_requests
    /\ pending_modes # <<>>
    /\ BagCardinality(workers) = max_concurrent_requests

\* C22: a finished event of the current generation of mode m sets m's status to "done"
\* unless it is "error", which it leaves; it takes m out of running_modes and starts one
\* worker, for the mode at the front of pending_modes, or none when pending_modes is
\* empty.
C22_CurrentFinished ==
    [][ \A w \in BagToSet(workers) :
          (Finished(w) /\ w.gen = mode_generations[w.mode])
              => /\ mode_status'[w.mode] =
                        (IF mode_status[w.mode] = "error" THEN "error" ELSE "done")
                 /\ w.mode \notin running_modes'
                 /\ Advances(w) ]_vars

\* The workers of two modes have finished under their current generation: one mode is
\* done, the other, which had failed, is still marked as failed.
C22_Witness ==
    /\ last.op = "finished"
    /\ ~last.stale
    /\ \E m, n \in Modes :
         /\ mode_status[m] = "done"
         /\ mode_status[n] = "error"
         /\ {m, n} \cap running_modes = {}
         /\ WorkersOf(workers, m) = EmptyBag
         /\ WorkersOf(workers, n) = EmptyBag

\* C23: no step lowers a mode's generation; run_all_generations on a non-blank text
\* gives every mode a greater generation, refresh_mode(m) on a non-blank text gives m a
\* greater generation and leaves the other modes', every other operation and event
\* leaves mode_generations as it is, and no mode's generation exceeds
\* current_generation.
C23_GenerationsGrow ==
    /\ [](\A m \in Modes : mode_generations[m] <= current_generation)
    /\ [][ \A m \in Modes : mode_generations'[m] >= mode_generations[m] ]_vars
    /\ [][ ((Launch \/ RunAll) /\ HasInput')
              => \A m \in Modes : mode_generations'[m] > mode_generations[m] ]_vars
    /\ [][ \A m \in Modes :
             (Refresh(m) /\ HasInput)
                 => /\ mode_generations'[m] > mode_generations[m]
                    /\ \A n \in Modes \ {m} : UNCHANGED mode_generations[n] ]_vars
    /\ [][ ( \/ (Launch \/ RunAll \/ \E m \in Modes : Refresh(m)) /\ ~HasInput'
             \/ \E combined_text \in CombinedTexts : Refine(combined_text)
             \/ \E w \in BagToSet(workers) :
                  Finished(w) \/ RefineChunk(w) \/ RefineError(w) \/ RefineFinished(w) )
              => UNCHANGED mode_generations ]_vars

\* A mode was refreshed after a refine and another mode before it: its generation is
\* greater than the other modes' and equal to current_generation.
C23_Witness ==
    /\ last.op = "refresh"
    /\ current_generation = 3
    /\ \E m \in Modes :
         /\ mode_generations[m] = 3
         /\ \A n \in Modes \ {m} : mode_generations[n] = 1

\* The modes after the first k of the table are queued, in the table's order, and have
\* no worker of the current generation; the first k are not queued.
StartedUpTo(k) ==
    /\ pending_modes = SubSeq(mode_panels, k + 1, Len(mode_panels))
    /\ \A i \in 1..Len(mode_panels) :
         IF i <= k
         THEN mode_status[mode_panels[i]] # "queued"
         ELSE /\ mode_status[mode_panels[i]] = "queued"
              /\ WorkersAt(workers, mode_panels[i], current_generation) = EmptyBag

\* C24: with no refresh_mode, the modes started since the last run_all_generations are
\* always the first ones of the mode table, at least 3 of them; run_all_generations
\* starts the first 3, and the queue moves only by a finished event, which starts the
\* next mode of the table.
C24_StartedInTableOrder ==
    /\ []((launched /\ HasInput)
            => \E k \in max_concurrent_requests..Len(mode_panels) : StartedUpTo(k))
    /\ [][ ((Launch \/ RunAll) /\ HasInput') => StartedUpTo(max_concurrent_requests)' ]_vars
    /\ [][ (launched /\ pending_modes' # pending_modes /\ ~RunAll)
              => /\ \E w \in BagToSet(workers) : Finished(w)
                 /\ pending_modes' = Tail(pending_modes)
                 /\ NextWorker \in BagToSet(workers') ]_vars

\* The first seven modes of the table have been started, the last two are queued.
C24_Witness ==
    /\ Len(mode_panels) = 9
    /\ last.op = "finished"
    /\ StartedUpTo(7)
    /\ mode_status[mode_panels[7]] = "running"

\* The positions of a signal in what run has emitted.
Positions(signal) == { i \in 1..Len(emitted) : emitted[i].signal = signal }

\* C25: in one execution of run, every chunk signal comes before error_occurred and
\* before finished, error_occurred comes before finished, and once error_occurred or
\* finished has been emitted no step of run emits a chunk.
C25_ChunksThenErrorThenFinished ==
    /\ [](\A i \in Positions("chunk_received") \cup Positions("chunk_received_with_mode") :
            \A j \in Positions("error_occurred") \cup Positions("finished") : i < j)
    /\ [](\A i \in Positions("error_occurred") : \A j \in Positions("finished") : i < j)
    /\ [][ (Emitted("error_occurred") + Emitted("finished") > 0)
              => /\ Positions("chunk_received")' = Positions("chunk_received")
                 /\ Positions("chunk_received_with_mode")'
                      = Positions("chunk_received_with_mode") ]_vars

\* run has emitted a chunk, then error_occurred, then finished.
C25_Witness ==
    /\ pc = "returned"
    /\ Len(emitted) >= 4
    /\ emitted[1].signal = "chunk_received"
    /\ emitted[Len(emitted) - 1].signal = "error_occurred"
    /\ emitted[Len(emitted)].signal = "finished"

\* list is the beginning of longer.
IsPrefix(list, longer) ==
    Len(list) <= Len(longer) /\ SubSeq(longer, 1, Len(list)) = list

\* C26: mode_results[m] is the chunks, in order, that the live worker of m's current
\* generation has delivered, and is empty while m is queued; while m's generation stays
\* the same it only grows at its end; run_all_generations and refresh_mode(m), on a
\* non-blank text, give m a new generation and empty mode_results[m] and mode_errors[m].
C26_ResultsAreTheChunks ==
    /\ [](\A m \in Modes :
            /\ \A w \in Running(workers, m, mode_generations[m]) :
                 mode_results[m] = SubSeq(Stream, 1, w.sent)
            /\ mode_status[m] \in {"none", "queued"} => mode_results[m] = <<>>)
    /\ [][ \A m \in Modes :
             IF mode_generations'[m] = mode_generations[m]
             THEN IsPrefix(mode_results[m], mode_results'[m])
             ELSE mode_results'[m] = <<>> /\ mode_errors'[m] = "" ]_vars
    /\ [][ ((Launch \/ RunAll) /\ HasInput')
              => \A m \in Modes : /\ mode_generations'[m] # mode_generations[m]
                                  /\ mode_results'[m] = <<>>
                                  /\ mode_errors'[m] = "" ]_vars
    /\ [][ \A m \in Modes :
             (Refresh(m) /\ HasInput)
                 => /\ mode_generations'[m] # mode_generations[m]
                    /\ mode_results'[m] = <<>>
                    /\ mode_errors'[m] = "" ]_vars

\* The worker of a mode's current generation has delivered two chunks.
C26_Witness ==
    \E m \in Modes :
       /\ last.op = "chunk"
       /\ ~last.stale
       /\ mode_results[m] = << "Hel", "lo" >>
       /\ \E w \in Running(workers, m, mode_generations[m]) : w.sent = 2

\* The live workers whose threads api_threads holds.
Tracked ==
    UNION { Running(workers, api_threads[i].mode, api_threads[i].gen) :
            i \in 1..Len(api_threads) }

\* C27: run_all_generations on a non-blank text leaves every live worker whose thread
\* api_threads holds with an interruption requested, whatever entries of finished
\* workers api_threads holds beside them.
C27_EveryLiveWorkerCancelled ==
    [][ (RunAll /\ HasInput)
           => \A w \in Tracked :
                /\ [w EXCEPT !.interrupted = TRUE] \in BagToSet(workers')
                /\ ~w.interrupted => w \notin BagToSet(workers') ]_vars

\* The modes whose status is running.
StatusRunning == { m \in Modes : mode_status[m] = "running" }

\* C28: no more than max_concurrent_requests modes have the status running, and every
\* mode with a live worker of its current generation is in running_modes.
C28_RunningStatusWithinLimit ==
    /\ Cardinality(StatusRunning) <= max_concurrent_requests
    /\ \A m \in Modes :
         Running(workers, m, mode_generations[m]) # {} => m \in running_modes

\* The workers of mode m that a step has created.
Created(m) ==
    { w \in BagToSet(workers') :
        /\ w.mode = m
        /\ w.sent = 0 /\ ~w.errored /\ ~w.interrupted
        /\ CopiesIn(w, workers') > CopiesIn(w, workers) }

\* C29: no two live workers have the same mode and generation, so at most one carries
\* the current generation of its mode; a worker is created under the generation its mode
\* then has, and only when that generation is new or the mode was queued under it; and a
\* mode that has left the status queued does not return to it under the same generation.
C29_OneWorkerPerGeneration ==
    /\ [](\A m \in Modes : \A g \in 1..current_generation :
             BagCardinality(WorkersAt(workers, m, g)) <= 1)
    /\ [][ \A m \in Modes : \A w \in Created(m) :
             /\ CopiesIn(w, workers') = 1
             /\ w.gen = mode_generations'[m]
             /\ \/ mode_generations'[m] > mode_generations[m]
                \/ mode_status[m] = "queued" ]_vars
    /\ [][ \A m \in Modes :
             (mode_generations'[m] = mode_generations[m]
                 /\ mode_status[m] \notin {"none", "queued"})
                 => mode_status'[m] # "queued" ]_vars

\* A mode refreshed twice: the workers of its three generations are alive, one of them
\* under its current generation.
C29_Witness ==
    \E m \in Modes :
       /\ BagCardinality(WorkersOf(workers, m)) = 3
       /\ BagCardinality(WorkersAt(workers, m, mode_generations[m])) = 1

\* C30: a mode is in pending_modes exactly when its status is queued, and no mode is in
\* pending_modes twice.
C30_PendingIffQueued ==
    \A m \in Modes :
       /\ InList(pending_modes, m) <=> mode_status[m] = "queued"
       /\ Occurrences(pending_modes, m) <= 1

\* A queued mode is refreshed while other modes wait behind the running ones: it is in
\* pending_modes once, at the front.
C30_Witness ==
    /\ last.op = "refresh"
    /\ Len(pending_modes) >= 2
    /\ mode_status[Head(pending_modes)] = "queued"
    /\ mode_generations[Head(pending_modes)] = current_generation
    /\ current_generation >= 2

\* The live workers of mode m that its generation has superseded.
Superseded(m) == { w \in BagToSet(workers) : w.mode = m /\ w.gen < mode_generations[m] }

\* C31, as stated: no mode is in running_modes and in pending_modes at once, and the
\* status of a mode is running exactly when the mode is in running_modes.
C31_RunningXorPending ==
    \A m \in Modes :
       /\ ~(m \in running_modes /\ InList(pending_modes, m))
       /\ mode_status[m] = "running" <=> m \in running_modes

\* C31, amended: a mode is in running_modes and in pending_modes at once only while it
\* is queued behind a superseded worker of its own that is still alive, with no worker
\* of its current generation; a mode in running_modes is running, failed or queued; and
\* a mode whose status is running has a live worker of its current generation.
C31_RunningAndPendingWhenRefreshed ==
    \A m \in Modes :
       /\ (m \in running_modes /\ InList(pending_modes, m))
            => /\ mode_status[m] = "queued"
               /\ Superseded(m) # {}
               /\ Running(workers, m, mode_generations[m]) = {}
       /\ m \in running_modes => mode_status[m] \in {"running", "error", "queued"}
       /\ mode_status[m] = "running" => Running(workers, m, mode_generations[m]) # {}

\* A running mode was refreshed: it is queued at the front of pending_modes and is still
\* in running_modes, its superseded worker being alive and interrupted.
C31_Witness ==
    /\ last.op = "refresh"
    /\ pending_modes # <<>>
    /\ Head(pending_modes) \in running_modes
    /\ \E w \in Superseded(Head(pending_modes)) : w.interrupted

\* C32: run_all_generations and refresh_mode leave every live refine worker as it is,
\* with no interruption requested, and leave the refine result text as it is.
C32_RefineUndisturbed ==
    [][ (RunAll \/ \E m \in Modes : Refresh(m))
           => /\ \A w \in RefineWorkers : CopiesIn(w, workers') = CopiesIn(w, workers)
              /\ UNCHANGED result_text ]_vars

====
